---- MODULE Spec2Model ----
(***************************************************************************)
(* LandBOSSE: the SAM entry point run_landbosse                            *)
(* (landbosse/landbosse_api/run.py) and the LCOE post-processing script    *)
(* (post_processing_scripts/lcoe_module_multiplier.py).                    *)
(*                                                                         *)
(* Encodings.                                                              *)
(*  - A Python number is a pair <<type, v>> with type "int" or "float" and *)
(*    v the value in fixed point: v = value * Scale.  A Python string is   *)
(*    <<"str", s>>.                                                        *)
(*  - A Python dict whose iteration order matters (sam_input_dict, the     *)
(*    error dict) is a sequence of <<key, value>> pairs with distinct      *)
(*    keys, in insertion order.  Other dicts are TLA+ functions.           *)
(*  - master_input_dict['error'] is the variable error.                    *)
(*  - A pandas column label that is an integer i is the string ToString(i).*)
(***************************************************************************)
EXTENDS Integers, Sequences, FiniteSets, TLC

\* ------------------------------------------------------------------ bounds
Scale == 2
MaxProjects == 2

\* ------------------------------------------------------- program constants
MinTurbines == 10
MaxRatingMW == 8
MinRatingMW == 1

\* -------------------------------------------------------- Python values
PyInt(n) == <<"int", n * Scale>>
PyFloat(v) == <<"float", v>>
PyStr(s) == <<"str", s>>

\* type(value) == int or type(value) == float
IsNumber(value) == value[1] = "int" \/ value[1] = "float"

\* ------------------------------------------------- ordered dict helpers
Keys(d) == {d[i][1] : i \in 1..Len(d)}
IndexOf(d, key) == CHOOSE i \in 1..Len(d) : d[i][1] = key
Get(d, key) == d[IndexOf(d, key)][2]

\* d[key] = value on an insertion-ordered dict: an existing key keeps its
\* position, a new key goes last.
DictSetClobber(d, key, value) == <<(<<key, value>>)>>
DictSet(d, key, value) ==
    IF key \in Keys(d)
    THEN [i \in 1..Len(d) |-> IF d[i][1] = key THEN <<key, value>> ELSE d[i]]
    ELSE Append(d, <<key, value>>)

\* d[key] = value on a dict whose order does not matter
Put(d, key, value) ==
    [k \in DOMAIN d \cup {key} |-> IF k = key THEN value ELSE d[k]]

VARIABLES
    pc,                     \* position in run_landbosse
    exception,              \* the exception that left run_landbosse, or "none"
    sam_input_dict,         \* the caller's override map
    sheets,                 \* the sheets of the project_list workbook, by name
    base_project_list,      \* read_data's project_list
    parametric_list,        \* read_data's parametric_list
    project_list,           \* rows of the expanded project list
    project_row,            \* index of the next row of the project loop
    weather_file,           \* the weather source that will be read
    master_input_dict,
    project_master,         \* master_input_dict as create_master_input_dictionary left it
    error,                  \* master_input_dict['error']
    default_date_time,      \* the generated timestamps: how many, and the first one
    start_date,             \* daterange's loop variable
    weather_window,         \* the table handed to read_weather_window
    labor_applied,          \* labor multiplier applied to the project data sheets
    manager_calls,          \* number of Manager.execute_landbosse invocations
    output_dict,
    results,
    lcoe_pc,                \* position in main of lcoe_module_multiplier.py
    bos_csv,                \* the rows of extended_landbosse_costs.csv
    bos,                    \* main's bos dataframe
    aep_csv,                \* the rows of aep.csv
    tcc_csv,                \* the rows of tcc.csv
    aep,                    \* main's aep dataframe
    tcc,                    \* main's tcc dataframe
    bos_sum,                \* the grouped BOS costs
    aep_tcc,                \* aep joined with tcc
    lcoe,                   \* main's lcoe dataframe
    lcoe_csv,               \* the rows written to lcoe_analysis.csv, or "none"
    lcoe_exception          \* the exception that left main, or "none"

sheetVars == <<sheets, base_project_list, parametric_list>>
apiVars == <<pc, exception, sam_input_dict, project_list, project_row, weather_file,
          master_input_dict, project_master, error, default_date_time, start_date,
          weather_window, labor_applied, manager_calls, output_dict, results, sheetVars>>
lcoeVars == <<lcoe_pc, bos_csv, bos, aep_csv, tcc_csv, aep, tcc, bos_sum, aep_tcc, lcoe,
              lcoe_csv, lcoe_exception>>
vars == <<apiVars, lcoeVars>>

\* ------------------------------------------------------------ the inputs
\* Override values offered for each key.  num_turbines and turbine_rating_MW
\* straddle the thresholds; every numeric key has one negative value.
NumTurbineValues ==
    {PyInt(-3), PyInt(5), PyInt(MinTurbines), PyInt(MinTurbines + 1)}
RatingValues ==
    {PyFloat(0 - Scale - 1), PyFloat(MinRatingMW * Scale - 1), PyInt(MinRatingMW),
     PyInt(MaxRatingMW), PyFloat(MaxRatingMW * Scale + 1)}
HubHeightValues == {PyInt(-80), PyInt(80)}
WeatherPathValues == {PyStr("user_weather.srw")}

SamKeys == {"num_turbines", "turbine_rating_MW", "hub_height_meters", "weather_file_path"}

ValuesOf(key) ==
    CASE key = "num_turbines" -> NumTurbineValues
      [] key = "turbine_rating_MW" -> RatingValues
      [] key = "hub_height_meters" -> HubHeightValues
      [] OTHER -> WeatherPathValues

\* Every dict over a subset of SamKeys, in every insertion order.
SamInputDicts ==
    UNION {
        {d \in [1..n -> UNION {{<<k, v>> : v \in ValuesOf(k)} : k \in SamKeys}] :
            \A i, j \in 1..n : i # j => d[i][1] # d[j][1]}
        : n \in 0..Cardinality(SamKeys)}

\* A weather source: whether it can be opened, its columns, and the rows left
\* after the five header rows are skipped.
ConformantRows == 8760
WeatherFile(exists, ncols, nrows) == [exists |-> exists, ncols |-> ncols, nrows |-> nrows]
DefaultWeatherFile == WeatherFile(TRUE, 5, ConformantRows)
UserWeatherFiles ==
    {WeatherFile(FALSE, 0, 0), WeatherFile(TRUE, 4, ConformantRows),
     WeatherFile(TRUE, 5, ConformantRows - 1), WeatherFile(TRUE, 5, ConformantRows),
     WeatherFile(TRUE, 6, ConformantRows + 1)}

\* xlsx_reader.create_master_input_dictionary for one project row: the project
\* data defaults of that row.
CreateMasterInputDictionary(row) ==
    [num_turbines |-> PyInt(100 + row),
     turbine_rating_MW |-> PyFloat(Scale + row),
     hub_height_meters |-> PyInt(90),
     rotor_diameter_m |-> PyInt(77),
     labor_cost_multiplier |-> PyInt(1),
     development_labor_cost_usd |-> PyInt(1000),
     component_data |-> <<"project_data", row>>]

NoDate == [year |-> 0, month |-> 0, day |-> 0, hour |-> 0, minute |-> 0]
NoDateTimes == [len |-> 0, first |-> ""]
NoTable == [columns |-> <<>>, nrows |-> 0, dates |-> NoDateTimes]
EmptyDict == [k \in {} |-> 0]

\* main of lcoe_module_multiplier.py is not running
LcoeIdle ==
    /\ lcoe_pc = "idle"
    /\ bos_csv = <<>>
    /\ bos = <<>>
    /\ aep_csv = <<>>
    /\ tcc_csv = <<>>
    /\ aep = <<>>
    /\ tcc = <<>>
    /\ bos_sum = <<>>
    /\ aep_tcc = <<>>
    /\ lcoe = <<>>
    /\ lcoe_csv = "none"
    /\ lcoe_exception = "none"

\* run_landbosse is not running
ApiIdle ==
    /\ pc = "idle"
    /\ exception = "none"
    /\ sam_input_dict = <<>>
    /\ sheets = <<>>
    /\ base_project_list = <<>>
    /\ parametric_list = <<>>
    /\ project_list = <<>>
    /\ project_row = 1
    /\ weather_file = DefaultWeatherFile
    /\ master_input_dict = EmptyDict
    /\ project_master = EmptyDict
    /\ error = <<>>
    /\ default_date_time = NoDateTimes
    /\ start_date = NoDate
    /\ weather_window = NoTable
    /\ labor_applied = FALSE
    /\ manager_calls = 0
    /\ output_dict = EmptyDict
    /\ results = EmptyDict

\* A sheet of the project_list workbook: its name and its table, whose n rows
\* are numbered from first
Sheet(name, first, n) == <<name, [i \in 1..n |-> first + i - 1]>>

\* The workbook shipped with the API: one sheet
SingleSheetWorkbooks == {<<Sheet("Sheet1", 1, n)>> : n \in 1..MaxProjects}

\* Workbooks of one to three sheets with distinct names; the sheet at position
\* p holds rows no other sheet holds
SheetNames == {"Project list", "Parametric list", "Sheet1"}
Workbooks ==
    {[p \in 1..Len(names) |-> Sheet(names[p], (p - 1) * MaxProjects + 1, n)] :
        names \in {s \in UNION {[1..k -> SheetNames] : k \in 1..3} :
                      \A i, j \in 1..Len(s) : s[i] = s[j] => i = j},
        n \in 1..MaxProjects}

InitOn(inputs, workbooks) ==
    /\ pc = "read_data"
    /\ exception = "none"
    /\ sam_input_dict \in inputs
    /\ sheets \in workbooks
    /\ base_project_list = <<>>
    /\ parametric_list = <<>>
    /\ project_list = <<>>
    /\ project_row = 1
    /\ weather_file \in
         IF "weather_file_path" \in Keys(sam_input_dict)
         THEN UserWeatherFiles ELSE {DefaultWeatherFile}
    /\ master_input_dict = EmptyDict
    /\ project_master = EmptyDict
    /\ error = <<>>
    /\ default_date_time = NoDateTimes
    /\ start_date = NoDate
    /\ weather_window = NoTable
    /\ labor_applied = FALSE
    /\ manager_calls = 0
    /\ output_dict = EmptyDict
    /\ results = EmptyDict
    /\ LcoeIdle

InitWith(inputs) == InitOn(inputs, SingleSheetWorkbooks)

Init == InitWith(SamInputDicts)

\* ---------------------------------------------------------- run_landbosse
Raise(exc) ==
    /\ pc' = "raised"
    /\ exception' = exc

\* line 393
HasNamedSheetsOnly(s) ==
    /\ "Parametric list" \in Keys(s)
    /\ "Project list" \in Keys(s)
    /\ Len(s) = 2
HasNamedSheets(s) == "Parametric list" \in Keys(s) /\ "Project list" \in Keys(s)

\* line 406: one entry per row of the parametric list
create_parametric_value_list(parametric) == parametric

\* lines 407-408: without parametric values the project rows are returned as
\* they are; otherwise there is one row per project and parametric value,
\* carrying the project's fields
outer_join_projects_to_parametric_values(projects, parametric_values) ==
    IF Len(parametric_values) = 0 THEN projects
    ELSE [i \in 1..(Len(projects) * Len(parametric_values)) |->
            projects[((i - 1) \div Len(parametric_values)) + 1]]

\* line 154 and lines 382-410
ReadData ==
    /\ pc = "read_data"
    /\ IF Len(sheets) = 1
       THEN /\ base_project_list' = sheets[1][2]
            /\ parametric_list' = <<>>
            /\ pc' = "project_loop"
            /\ UNCHANGED exception
       ELSE IF HasNamedSheets(sheets)
       THEN /\ base_project_list' = Get(sheets, "Project list")
            /\ parametric_list' = Get(sheets, "Parametric list")
            /\ pc' = "project_loop"
            /\ UNCHANGED exception
       ELSE /\ Raise("KeyError")
            /\ UNCHANGED <<base_project_list, parametric_list>>
    /\ project_list' =
            IF pc' = "project_loop"
            THEN outer_join_projects_to_parametric_values(
                     base_project_list', create_parametric_value_list(parametric_list'))
            ELSE project_list
    /\ UNCHANGED <<sam_input_dict, sheets, project_row, weather_file,
                   master_input_dict, project_master, error, default_date_time, start_date,
                   weather_window, labor_applied, manager_calls, output_dict, results>>
    /\ UNCHANGED lcoeVars

\* lines 157-173: one iteration of the project loop
ProjectLoop ==
    /\ pc = "project_loop"
    /\ project_row <= Len(project_list)
    /\ master_input_dict' = CreateMasterInputDictionary(project_list[project_row])
    /\ project_master' = master_input_dict'
    /\ error' = <<>>
    /\ project_row' = project_row + 1
    /\ UNCHANGED <<pc, exception, sam_input_dict, project_list, weather_file,
                   default_date_time, start_date, weather_window, labor_applied,
                   manager_calls, output_dict, results>>
    /\ UNCHANGED <<sheetVars, lcoeVars>>

\* lines 175-179: the loop is over
ProjectLoopDone ==
    /\ pc = "project_loop"
    /\ project_row > Len(project_list)
    /\ output_dict' = EmptyDict
    /\ pc' = "negative_scan"
    /\ UNCHANGED <<exception, sam_input_dict, project_list, project_row, weather_file,
                   master_input_dict, project_master, error, default_date_time, start_date,
                   weather_window, labor_applied, manager_calls, results>>
    /\ UNCHANGED <<sheetVars, lcoeVars>>

\* value < 0 for a value the scan treats as a number (line 183)
IsNegativeNumber(value) == IsNumber(value) /\ value[2] < 0

\* The key the loop variable holds when NegativeInputError is raised: the raise
\* leaves the for loop at the first negative value (lines 182-184).
LastNegativeKey(d) ==
    d[CHOOSE i \in 1..Len(d) :
        /\ IsNegativeNumber(d[i][2])
        /\ \A j \in (i + 1)..Len(d) : ~IsNegativeNumber(d[j][2])][1]
RaisingKey(d) ==
    d[CHOOSE i \in 1..Len(d) :
        /\ IsNegativeNumber(d[i][2])
        /\ \A j \in 1..(i - 1) : ~IsNegativeNumber(d[j][2])][1]

HasNegative(d) == \E i \in 1..Len(d) : IsNegativeNumber(d[i][2])

NegativeInputMessage(key) ==
    "User entered a negative value for " \o key \o ". This is an invalid entry"
TurbineNumberMessage ==
    "User selected less than 10 turbines. LandBOSSE currently provides BOS estimates for 10 or greater number of turbines in a utility scale project."
LargeTurbineSizeMessage ==
    "User selected turbine of rating greater than 8 MW. LandBOSSE provides reasonable results for turbines in range of 1-8 MW rating for now."
SmallTurbineSizeMessage ==
    "User selected turbine of rating lesser than 1 MW. LandBOSSE provides reasonable results for turbines in range of 1-8 MW rating for now."

\* lines 181-187
NegativeScan ==
    /\ pc = "negative_scan"
    /\ error' = IF HasNegative(sam_input_dict)
                THEN DictSet(error, "NegativeInputError",
                             NegativeInputMessage(RaisingKey(sam_input_dict)))
                ELSE error
    /\ pc' = "override"
    /\ UNCHANGED <<exception, sam_input_dict, project_list, project_row, weather_file,
                   master_input_dict, project_master, default_date_time, start_date,
                   weather_window, labor_applied, manager_calls, output_dict, results>>
    /\ UNCHANGED <<sheetVars, lcoeVars>>

\* lines 192-196: the master map after the whole override loop
\* line 193
IsSkippedKeyNever(key) == FALSE
IsSkippedKey(key) == key = "weather_file_path"

RECURSIVE OverrideFrom(_, _, _)
OverrideFrom(master, d, i) ==
    IF i > Len(d) THEN master
    ELSE IF IsSkippedKey(d[i][1]) THEN OverrideFrom(master, d, i + 1)
    ELSE OverrideFrom(Put(master, d[i][1], d[i][2]), d, i + 1)

OverrideLoop ==
    /\ pc = "override"
    /\ master_input_dict' = OverrideFrom(master_input_dict, sam_input_dict, 1)
    /\ pc' = "labor"
    /\ UNCHANGED <<exception, sam_input_dict, project_list, project_row, weather_file,
                   project_master, error, default_date_time, start_date,
                   weather_window, labor_applied, manager_calls, output_dict, results>>
    /\ UNCHANGED <<sheetVars, lcoeVars>>

\* lines 200-201
ApplyLaborMultiplier ==
    /\ pc = "labor"
    /\ IF "labor_cost_multiplier" \in DOMAIN master_input_dict
       THEN /\ labor_applied' = TRUE
            /\ pc' = "check_turbines"
            /\ UNCHANGED exception
       ELSE /\ Raise("KeyError")
            /\ UNCHANGED labor_applied
    /\ UNCHANGED <<sam_input_dict, project_list, project_row, weather_file,
                   master_input_dict, project_master, error, default_date_time, start_date,
                   weather_window, manager_calls, output_dict, results>>
    /\ UNCHANGED <<sheetVars, lcoeVars>>

\* sam_input_dict['num_turbines'] > 10 (line 205)
TurbineNumberAcceptedAtTen(value) == value[2] >= MinTurbines * Scale
TurbineNumberAccepted(value) == value[2] > MinTurbines * Scale

\* lines 204-212
CheckTurbineNumber ==
    /\ pc = "check_turbines"
    /\ IF "num_turbines" \notin Keys(sam_input_dict)
       THEN /\ Raise("KeyError")
            /\ UNCHANGED <<master_input_dict, error>>
       ELSE /\ pc' = "check_rating"
            /\ UNCHANGED exception
            /\ IF TurbineNumberAccepted(Get(sam_input_dict, "num_turbines"))
               THEN /\ master_input_dict' =
                         Put(master_input_dict, "num_turbines",
                             Get(sam_input_dict, "num_turbines"))
                    /\ UNCHANGED error
               ELSE /\ error' = DictSet(error, "TurbineNumberError", TurbineNumberMessage)
                    /\ UNCHANGED master_input_dict
    /\ UNCHANGED <<sam_input_dict, project_list, project_row, weather_file,
                   project_master, default_date_time, start_date,
                   weather_window, labor_applied, manager_calls, output_dict, results>>
    /\ UNCHANGED <<sheetVars, lcoeVars>>

\* sam_input_dict['turbine_rating_MW'] > 8 (line 216) and < 1 (line 218)
RatingTooLarge(value) == value[2] > MaxRatingMW * Scale
RatingTooSmall(value) == value[2] < MinRatingMW * Scale

\* lines 215-229
CheckTurbineRating ==
    /\ pc = "check_rating"
    /\ IF "turbine_rating_MW" \notin Keys(sam_input_dict)
       THEN /\ Raise("KeyError")
            /\ UNCHANGED <<master_input_dict, error>>
       ELSE /\ pc' = "daterange"
            /\ UNCHANGED exception
            /\ LET rating == Get(sam_input_dict, "turbine_rating_MW") IN
               IF RatingTooLarge(rating)
               THEN /\ error' = DictSet(error, "LargeTurbineSizeError",
                                        LargeTurbineSizeMessage)
                    /\ UNCHANGED master_input_dict
               ELSE IF RatingTooSmall(rating)
               THEN /\ error' = DictSet(error, "SmallTurbineSizeError",
                                        SmallTurbineSizeMessage)
                    /\ UNCHANGED master_input_dict
               ELSE /\ master_input_dict' =
                         Put(master_input_dict, "turbine_rating_MW", rating)
                    /\ UNCHANGED error
    /\ UNCHANGED <<sam_input_dict, project_list, project_row, weather_file,
                   project_master, default_date_time, start_date,
                   weather_window, labor_applied, manager_calls, output_dict, results>>
    /\ UNCHANGED <<sheetVars, lcoeVars>>

\* ------------------------------------------------ datetime and daterange
DateTime(y, mo, d, h, mi) == [year |-> y, month |-> mo, day |-> d, hour |-> h, minute |-> mi]

\* lines 233-234
StartDate == DateTime(2011, 12, 31, 0, 0)
EndDate == DateTime(2012, 12, 30, 0, 0)

IsLeapYear(y) == (y % 4 = 0 /\ y % 100 # 0) \/ y % 400 = 0
DaysInMonthNoLeap(y, m) ==
    IF m = 2 THEN 28 ELSE IF m \in {4, 6, 9, 11} THEN 30 ELSE 31
DaysInMonth(y, m) ==
    IF m = 2 THEN (IF IsLeapYear(y) THEN 29 ELSE 28)
    ELSE IF m \in {4, 6, 9, 11} THEN 30 ELSE 31

\* start_date += timedelta(hours=1)
AddHour(dt) ==
    IF dt.hour < 23 THEN [dt EXCEPT !.hour = dt.hour + 1]
    ELSE IF dt.day < DaysInMonth(dt.year, dt.month)
         THEN [dt EXCEPT !.hour = 0, !.day = dt.day + 1]
    ELSE IF dt.month < 12
         THEN [dt EXCEPT !.hour = 0, !.day = 1, !.month = dt.month + 1]
    ELSE [dt EXCEPT !.hour = 0, !.day = 1, !.month = 1, !.year = dt.year + 1]

\* start_date < end_date
DateLess(a, b) ==
    \/ a.year < b.year
    \/ a.year = b.year /\ a.month < b.month
    \/ a.year = b.year /\ a.month = b.month /\ a.day < b.day
    \/ a.year = b.year /\ a.month = b.month /\ a.day = b.day /\ a.hour < b.hour
    \/ /\ a.year = b.year /\ a.month = b.month /\ a.day = b.day /\ a.hour = b.hour
       /\ a.minute < b.minute

\* strftime("%Y-%m-%d %H:%M")
TwoDigits(n) == IF n < 10 THEN "0" \o ToString(n) ELSE ToString(n)
Strftime(dt) ==
    ToString(dt.year) \o "-" \o TwoDigits(dt.month) \o "-" \o TwoDigits(dt.day)
        \o " " \o TwoDigits(dt.hour) \o ":" \o TwoDigits(dt.minute)

\* The position of a datetime on the hour line, counted from 2011-01-01 00:00
\* by whole years, months and days.
RECURSIVE DaysBeforeMonth(_, _)
DaysBeforeMonth(y, m) ==
    IF m <= 1 THEN 0 ELSE DaysBeforeMonth(y, m - 1) + DaysInMonth(y, m - 1)
RECURSIVE DaysBeforeYear(_)
DaysBeforeYear(y) ==
    IF y <= 2011 THEN 0
    ELSE DaysBeforeYear(y - 1) + (IF IsLeapYear(y - 1) THEN 366 ELSE 365)
HourNumber(dt) ==
    24 * (DaysBeforeYear(dt.year) + DaysBeforeMonth(dt.year, dt.month) + dt.day - 1)
        + dt.hour

\* The list lines 235-237 build, summarised: daterange yields one datetime per
\* whole hour in [StartDate, EndDate).
DateRangeSummary ==
    [len |-> HourNumber(EndDate) - HourNumber(StartDate), first |-> Strftime(StartDate)]

\* lines 233-237, the loop taken as a whole
DateRangeAll ==
    /\ pc = "daterange"
    /\ default_date_time' = DateRangeSummary
    /\ pc' = "weather"
    /\ UNCHANGED <<exception, sam_input_dict, project_list, project_row, weather_file,
                   master_input_dict, project_master, error, start_date,
                   weather_window, labor_applied, manager_calls, output_dict, results>>
    /\ UNCHANGED <<sheetVars, lcoeVars>>

\* lines 233-235: the loop is entered
DateRangeBegin ==
    /\ pc = "daterange"
    /\ start_date' = StartDate
    /\ default_date_time' = NoDateTimes
    /\ pc' = "daterange_loop"
    /\ UNCHANGED <<exception, sam_input_dict, project_list, project_row, weather_file,
                   master_input_dict, project_master, error,
                   weather_window, labor_applied, manager_calls, output_dict, results>>
    /\ UNCHANGED <<sheetVars, lcoeVars>>

\* lines 236-237 with 422-424: one datetime is yielded and appended
DateRangeStep ==
    /\ pc = "daterange_loop"
    /\ DateLess(start_date, EndDate)
    /\ default_date_time' =
         [len |-> default_date_time.len + 1,
          first |-> IF default_date_time.len = 0 THEN Strftime(start_date)
                    ELSE default_date_time.first]
    /\ start_date' = AddHour(start_date)
    /\ UNCHANGED <<pc, exception, sam_input_dict, project_list, project_row, weather_file,
                   master_input_dict, project_master, error,
                   weather_window, labor_applied, manager_calls, output_dict, results>>
    /\ UNCHANGED <<sheetVars, lcoeVars>>

\* line 422: the generator is exhausted
DateRangeDone ==
    /\ pc = "daterange_loop"
    /\ ~DateLess(start_date, EndDate)
    /\ pc' = "weather"
    /\ UNCHANGED <<exception, sam_input_dict, project_list, project_row, weather_file,
                   master_input_dict, project_master, error, default_date_time, start_date,
                   weather_window, labor_applied, manager_calls, output_dict, results>>
    /\ UNCHANGED <<sheetVars, lcoeVars>>

\* ------------------------------------------------- weather normalization
Failed(exc, msg) == [ok |-> FALSE, exc |-> exc, msg |-> msg, table |-> NoTable]
Done(table) == [ok |-> TRUE, exc |-> "none", msg |-> "", table |-> table]

\* lines 413-416: pd.read_csv(file_path, header=None, skiprows=5, usecols=[0..4])
read_weather_data(file) ==
    IF ~file.exists THEN Failed("FileNotFoundError", "No such file or directory")
    ELSE IF file.nrows = 0 THEN Failed("EmptyDataError", "No columns to parse from file")
    ELSE IF file.ncols < 5
         THEN Failed("ParserError", "Usecols do not match columns")
    ELSE Done([columns |-> [i \in 1..5 |-> ToString(i - 1)],
               nrows |-> file.nrows, dates |-> NoDateTimes])

\* line 248: insert(loc=0, column='time', value=default_date_time)
InsertTime(table, date_times) ==
    IF date_times.len # table.nrows
    THEN Failed("ValueError", "Length of values does not match length of index")
    ELSE Done([table EXCEPT !.columns = <<"time">> \o table.columns,
                            !.dates = date_times])

\* lines 250-256: the first five column names, by position
RenamedColumns(column_names) ==
    <<(<<column_names[1], "Date UTC">>), (<<column_names[2], "Temp C">>),
      (<<column_names[3], "Pressure atm">>), (<<column_names[4], "Direction deg">>),
      (<<column_names[5], "Speed m per s">>)>>

\* line 257: rename(columns=renamed_columns)
Rename(table, renamed_columns) ==
    [table EXCEPT !.columns =
        [i \in 1..Len(table.columns) |->
            IF table.columns[i] \in Keys(renamed_columns)
            THEN Get(renamed_columns, table.columns[i])
            ELSE table.columns[i]]]

\* line 259: weather_data[renamed_columns.values()]
SelectColumns(table, names) ==
    IF \E i \in 1..Len(names) :
          \A j \in 1..Len(table.columns) : table.columns[j] # names[i]
    THEN Failed("KeyError", "not in index")
    ELSE Done([table EXCEPT !.columns = names])

\* lines 241-259: the table handed to read_weather_window, or the failure
NormalizeWeather(file, date_times) ==
    LET read == read_weather_data(file) IN
    IF ~read.ok THEN read
    ELSE LET inserted == InsertTime(read.table, date_times) IN
         IF ~inserted.ok THEN inserted
         ELSE LET renamed_columns == RenamedColumns(inserted.table.columns)
                  weather_data == Rename(inserted.table, renamed_columns)
              IN SelectColumns(weather_data,
                               [i \in 1..Len(renamed_columns) |-> renamed_columns[i][2]])

\* line 261: except Exception
CaughtOnlyIOError(exc) == exc = "FileNotFoundError"
CaughtAsException(exc) == exc # "none"

\* lines 240-262
WeatherWindow ==
    /\ pc = "weather"
    /\ LET normalized == NormalizeWeather(weather_file, default_date_time) IN
       IF normalized.ok
       THEN /\ weather_window' = normalized.table
            /\ master_input_dict' =
                 Put(master_input_dict, "weather_window",
                     <<"weather_window", normalized.table.nrows>>)
            /\ pc' = "geometry"
            /\ UNCHANGED <<error, exception>>
       ELSE IF CaughtAsException(normalized.exc)
       THEN /\ error' = DictSet(error, "Weather_Data", normalized.msg)
            /\ pc' = "geometry"
            /\ UNCHANGED <<weather_window, master_input_dict, exception>>
       ELSE /\ Raise(normalized.exc)
            /\ UNCHANGED <<weather_window, master_input_dict, error>>
    /\ UNCHANGED <<sam_input_dict, project_list, project_row, weather_file,
                   project_master, default_date_time, start_date,
                   labor_applied, manager_calls, output_dict, results>>
    /\ UNCHANGED <<sheetVars, lcoeVars>>

\* ---------------------------------------------------- geometry scaling
GeometryInputs == {"turbine_rating_MW", "hub_height_meters", "rotor_diameter_m",
                   "component_data"}

\* lines 272-302: the component table rewritten from the master map's rating,
\* hub height and rotor diameter
Geometry ==
    /\ pc = "geometry"
    /\ IF GeometryInputs \subseteq DOMAIN master_input_dict
       THEN /\ master_input_dict' =
                 Put(master_input_dict, "component_data",
                     <<"scaled", master_input_dict["turbine_rating_MW"],
                       master_input_dict["hub_height_meters"],
                       master_input_dict["rotor_diameter_m"]>>)
            /\ pc' = "manager"
            /\ UNCHANGED exception
       ELSE /\ Raise("KeyError")
            /\ UNCHANGED master_input_dict
    /\ UNCHANGED <<sam_input_dict, project_list, project_row, weather_file,
                   project_master, error, default_date_time, start_date,
                   weather_window, labor_applied, manager_calls, output_dict, results>>
    /\ UNCHANGED <<sheetVars, lcoeVars>>

\* ------------------------------------------------------------ the Manager
\* lines 321-375: results[key] = output_dict[key'], in the order of the code
ResultFields ==
    <<(<<"total_bos_cost", "project_value_usd">>),
     (<<"total_management_cost", "total_management_cost">>),
     (<<"insurance_usd", "insurance_usd">>),
     (<<"construction_permitting_usd", "construction_permitting_usd">>),
     (<<"project_management_usd", "project_management_usd">>),
     (<<"bonding_usd", "bonding_usd">>),
     (<<"markup_contingency_usd", "markup_contingency_usd">>),
     (<<"engineering_usd", "engineering_usd">>),
     (<<"site_facility_usd", "site_facility_usd">>),
     (<<"total_management_cost", "total_management_cost">>),
     (<<"total_development_cost", "summed_development_cost">>),
     (<<"total_sitepreparation_cost", "summed_sitepreparation_cost">>),
     (<<"sitepreparation_equipment_rental_usd", "sitepreparation_equipment_rental_usd">>),
     (<<"sitepreparation_labor_usd", "sitepreparation_labor_usd">>),
     (<<"sitepreparation_material_usd", "sitepreparation_material_usd">>),
     (<<"sitepreparation_mobilization_usd", "sitepreparation_mobilization_usd">>),
     (<<"total_foundation_cost", "summed_foundation_cost">>),
     (<<"foundation_equipment_rental_usd", "foundation_equipment_rental_usd">>),
     (<<"foundation_labor_usd", "foundation_labor_usd">>),
     (<<"foundation_material_usd", "foundation_material_usd">>),
     (<<"foundation_mobilization_usd", "foundation_mobilization_usd">>),
     (<<"total_erection_cost", "total_cost_summed_erection">>),
     (<<"erection_equipment_rental_usd", "erection_equipment_rental_usd">>),
     (<<"erection_labor_usd", "erection_labor_usd">>),
     (<<"erection_material_usd", "erection_material_usd">>),
     (<<"erection_other_usd", "erection_other_usd">>),
     (<<"erection_mobilization_usd", "erection_mobilization_usd">>),
     (<<"erection_fuel_usd", "erection_fuel_usd">>),
     (<<"total_gridconnection_cost", "trans_dist_usd">>),
     (<<"total_collection_cost", "summed_collection_cost">>),
     (<<"collection_equipment_rental_usd", "collection_equipment_rental_usd">>),
     (<<"collection_labor_usd", "collection_labor_usd">>),
     (<<"collection_material_usd", "collection_material_usd">>),
     (<<"collection_mobilization_usd", "collection_mobilization_usd">>),
     (<<"total_substation_cost", "summed_substation_cost">>)>>

RequiredOutputKeys == {ResultFields[i][2] : i \in 1..Len(ResultFields)}
DevelopmentLaborKey == "Development labor cost USD"

\* What a completed Manager.execute_landbosse leaves in output_dict: every key
\* the projection reads, and possibly the development labor entry.
CostValues == {PyInt(0), PyInt(125000)}
ManagerOutputs ==
    {[k \in RequiredOutputKeys \cup extra |-> v] :
        v \in CostValues, extra \in {{}, {DevelopmentLaborKey}}}

\* lines 309-310
ExecuteManager ==
    /\ pc = "manager"
    /\ manager_calls' = manager_calls + 1
    /\ \/ /\ output_dict' \in ManagerOutputs
          /\ pc' = "results"
          /\ UNCHANGED exception
       \/ /\ Raise("ModuleError")
          /\ UNCHANGED output_dict
    /\ UNCHANGED <<sam_input_dict, project_list, project_row, weather_file,
                   master_input_dict, project_master, error, default_date_time, start_date,
                   weather_window, labor_applied, results>>
    /\ UNCHANGED <<sheetVars, lcoeVars>>

\* ------------------------------------------------------ result projection
\* line 318
ErrorMessageNoKind(key, value) == "Error: " \o value
ErrorMessage(key, value) == "Error in " \o key \o ": " \o value

\* lines 316-319
ErrorReport(err) ==
    [errors |-> [i \in 1..Len(err) |-> ErrorMessage(err[i][1], err[i][2])]]

\* lines 321-375, the assignments in order
RECURSIVE ProjectFields(_, _, _)
ProjectFields(res, out, i) ==
    IF i > Len(ResultFields) THEN res
    ELSE ProjectFields(Put(res, ResultFields[i][1], out[ResultFields[i][2]]), out, i + 1)

\* lines 336-340
DevelopmentFields(res, out, master) ==
    LET rental == IF DevelopmentLaborKey \in DOMAIN out
                  THEN Put(res, "development_equipment_rental_usd",
                           master["development_labor_cost_usd"])
                  ELSE res
    IN Put(Put(Put(rental, "development_labor_usd", PyInt(0)),
               "development_material_usd", PyInt(0)),
           "development_mobilization_usd", PyInt(0))

CostReport(out, master) ==
    DevelopmentFields(ProjectFields([errors |-> <<>>], out, 1), out, master)

\* lines 314-377
ProjectResults ==
    /\ pc = "results"
    /\ IF error # <<>>
       THEN /\ results' = ErrorReport(error)
            /\ pc' = "returned"
            /\ UNCHANGED exception
       ELSE IF /\ RequiredOutputKeys \subseteq DOMAIN output_dict
               /\ DevelopmentLaborKey \in DOMAIN output_dict
                    => "development_labor_cost_usd" \in DOMAIN master_input_dict
       THEN /\ results' = CostReport(output_dict, master_input_dict)
            /\ pc' = "returned"
            /\ UNCHANGED exception
       ELSE /\ Raise("KeyError")
            /\ UNCHANGED results
    /\ UNCHANGED <<sam_input_dict, project_list, project_row, weather_file,
                   master_input_dict, project_master, error, default_date_time, start_date,
                   weather_window, labor_applied, manager_calls, output_dict>>
    /\ UNCHANGED <<sheetVars, lcoeVars>>

\* ------------------------------------------------------- specifications
Common ==
    \/ ReadData
    \/ ProjectLoop
    \/ ProjectLoopDone
    \/ NegativeScan
    \/ OverrideLoop
    \/ ApplyLaborMultiplier
    \/ CheckTurbineNumber
    \/ CheckTurbineRating
    \/ WeatherWindow
    \/ Geometry
    \/ ExecuteManager
    \/ ProjectResults

Next == Common \/ DateRangeAll

Spec == Init /\ [][Next]_vars

\* run_landbosse on a well-formed override map, the daterange loop taken one
\* datetime at a time
WeatherInputDicts ==
    {<<(<<"num_turbines", PyInt(100)>>), (<<"turbine_rating_MW", PyFloat(Scale + 1)>>)>>,
     <<(<<"num_turbines", PyInt(100)>>), (<<"turbine_rating_MW", PyFloat(Scale + 1)>>),
       (<<"weather_file_path", PyStr("user_weather.srw")>>)>>}

InitWeather == InitWith(WeatherInputDicts)

NextWeather == Common \/ DateRangeBegin \/ DateRangeStep \/ DateRangeDone

SpecWeather == InitWeather /\ [][NextWeather]_vars

\* run_landbosse on override maps that hold a value below a threshold, a
\* string for a numeric default, a key the defaults do not have and the
\* weather file path, in every insertion order
OverrideEntries ==
    {<<"num_turbines", PyInt(5)>>,
     <<"turbine_rating_MW", PyFloat(Scale + 1)>>,
     <<"development_labor_cost_usd", PyStr("unknown")>>,
     <<"gust_velocity_m_per_s", PyInt(60)>>,
     <<"weather_file_path", PyStr("user_weather.srw")>>}
OverrideInputDicts ==
    UNION {
        {d \in [1..n -> OverrideEntries] : \A i, j \in 1..n : i # j => d[i][1] # d[j][1]}
        : n \in 0..Cardinality(OverrideEntries)}

InitOverride == InitWith(OverrideInputDicts)

SpecOverride == InitOverride /\ [][Next]_vars

\* run_landbosse on a well-formed override map and every workbook
InitSheets == InitOn(WeatherInputDicts, Workbooks)

SpecSheets == InitSheets /\ [][Next]_vars

\* ================================================== lcoe_module_multiplier
\* A row of the BOS cost table, with the columns main selects (lines 36-38).
\* Costs are fixed point like every number; the costs offered are whole even
\* amounts, so that the product with 0.5 is exact.
MaxRows == 2

CostRow(turbines, rating, hub, labor, crane, rotor, cost, module) ==
    [turbines |-> turbines, rating_MW |-> rating, hub_height |-> hub,
     labor_multiplier |-> labor, crane_breakdown |-> crane, rotor_diam |-> rotor,
     cost |-> cost, module |-> module]

ModuleNames == {"ErectionCost", "FoundationCost", "CollectionCost"}
CostRows ==
    {CostRow(PyInt(100), PyFloat(Scale + 1), PyInt(80), PyInt(1), PyInt(0), rotor,
             cost, module) :
        rotor \in {PyInt(77), PyInt(100)},
        cost \in {PyInt(1000), PyInt(2500)},
        module \in ModuleNames}

BosTables == UNION {[1..n -> CostRows] : n \in 0..MaxRows}

\* lines 5-6 and 15: a copy of the row with its Modifications column set
WithModification(row, label) ==
    [k \in DOMAIN row \cup {"modifications"} |->
        IF k = "modifications" THEN label ELSE row[k]]

\* line 17: new_row['Cost per project'] *= 0.5
TimesHalf(value) == <<"float", value[2] \div 2>>

\* line 16: new_row['Module'] == module
IsTargetAlways(row, module) == TRUE
IsTarget(row, module) == row.module = module

\* lines 14-18: the row appended for one original row and one module alias
ModifiedRow(row, module_alias) ==
    LET module == module_alias \o "Cost"
        new_row == WithModification(row, module_alias \o " 50%")
    IN IF IsTarget(new_row, module)
       THEN [new_row EXCEPT !.cost = TimesHalf(new_row.cost)]
       ELSE new_row

\* line 10
ModuleAliasesErectionOnly == <<"Erection">>
ModuleAliases == <<"Erection", "Foundation">>

\* lines 4-22
preprocess_bos_module_cost(df) ==
    LET original == [i \in 1..Len(df) |-> WithModification(df[i], "Conventional")]
        n == Len(original)
        modified ==
            [k \in 1..(Len(ModuleAliases) * n) |->
                ModifiedRow(original[((k - 1) % n) + 1],
                            ModuleAliases[((k - 1) \div n) + 1])]
    IN original \o modified

\* Rows of aep.csv and tcc.csv.  The first two of each share the rating and
\* hub height of the BOS rows and differ in rotor diameter; the third has a
\* rating no BOS row has.
BosRatingKw == PyFloat((Scale + 1) * 1000)
AepRow(rating, rotor, hub, value) ==
    [rating_kW |-> rating, rotor_diam |-> rotor, hub_height |-> hub, aep |-> value]
TccRow(rating, rotor, hub, value) ==
    [rating_kW |-> rating, rotor_diam |-> rotor, hub_height |-> hub, tcc |-> value]

AepTables ==
    {<<AepRow(BosRatingKw, PyInt(77), PyInt(80), PyInt(4000))>>,
     <<AepRow(BosRatingKw, PyInt(77), PyInt(80), PyInt(4000)),
       AepRow(BosRatingKw, PyInt(100), PyInt(80), PyInt(5000))>>,
     <<AepRow(PyInt(3000), PyInt(77), PyInt(80), PyInt(6000))>>}
TccTables ==
    {<<TccRow(BosRatingKw, PyInt(77), PyInt(80), PyInt(1000))>>,
     <<TccRow(BosRatingKw, PyInt(77), PyInt(80), PyInt(1000)),
       TccRow(BosRatingKw, PyInt(100), PyInt(80), PyInt(1200))>>,
     <<TccRow(BosRatingKw, PyInt(100), PyInt(80), PyInt(1200))>>,
     <<TccRow(PyInt(3000), PyInt(77), PyInt(80), PyInt(900))>>}

InitLcoe ==
    /\ ApiIdle
    /\ lcoe_pc = "read_aep_tcc"
    /\ bos_csv \in BosTables
    /\ aep_csv \in AepTables
    /\ tcc_csv \in TccTables
    /\ bos = <<>>
    /\ aep = <<>>
    /\ tcc = <<>>
    /\ bos_sum = <<>>
    /\ aep_tcc = <<>>
    /\ lcoe = <<>>
    /\ lcoe_csv = "none"
    /\ lcoe_exception = "none"

\* lines 28-29
ReadAepTcc ==
    /\ lcoe_pc = "read_aep_tcc"
    /\ aep' = aep_csv
    /\ tcc' = tcc_csv
    /\ lcoe_pc' = "read_bos"
    /\ UNCHANGED <<bos_csv, bos, aep_csv, tcc_csv, bos_sum, aep_tcc, lcoe, lcoe_csv,
                   lcoe_exception, apiVars>>

\* lines 35-38
ReadBos ==
    /\ lcoe_pc = "read_bos"
    /\ bos' = bos_csv
    /\ lcoe_pc' = "preprocess"
    /\ UNCHANGED <<bos_csv, aep_csv, tcc_csv, aep, tcc, bos_sum, aep_tcc, lcoe, lcoe_csv,
                   lcoe_exception, apiVars>>

\* line 42
PreprocessBos ==
    /\ lcoe_pc = "preprocess"
    /\ bos' = preprocess_bos_module_cost(bos)
    /\ lcoe_pc' = "rename"
    /\ UNCHANGED <<bos_csv, aep_csv, tcc_csv, aep, tcc, bos_sum, aep_tcc, lcoe, lcoe_csv,
                   lcoe_exception, apiVars>>

\* line 45: bos['Turbine rating MW'] * 1000
TimesThousand(value) == <<value[1], value[2] * 1000>>

\* lines 45-51: Rating [kW] added, three columns renamed, the MW column dropped
RenamedRow(row) ==
    [rating_kW |-> TimesThousand(row.rating_MW), rotor_diam |-> row.rotor_diam,
     turbines |-> row.turbines, hub_height |-> row.hub_height,
     labor_multiplier |-> row.labor_multiplier, crane_breakdown |-> row.crane_breakdown,
     modifications |-> row.modifications, bos_capex |-> row.cost, module |-> row.module]

RenameBos ==
    /\ lcoe_pc = "rename"
    /\ bos' = [i \in 1..Len(bos) |-> RenamedRow(bos[i])]
    /\ lcoe_pc' = "groupby"
    /\ UNCHANGED <<bos_csv, aep_csv, tcc_csv, aep, tcc, bos_sum, aep_tcc, lcoe, lcoe_csv,
                   lcoe_exception, apiVars>>

\* lines 55-57: the columns grouped by, in the order given
GroupKeyNoModifications(row) ==
    <<row.rating_kW, row.rotor_diam, row.turbines, row.hub_height, row.labor_multiplier,
      row.crane_breakdown, "Conventional">>
GroupKey(row) ==
    <<row.rating_kW, row.rotor_diam, row.turbines, row.hub_height, row.labor_multiplier,
      row.crane_breakdown, row.modifications>>

\* The order of two Modifications labels as strings
LabelRank(label) ==
    CASE label = "Conventional" -> 1
      [] label = "Erection 50%" -> 2
      [] label = "Foundation 50%" -> 3
      [] OTHER -> 0

\* groupby sorts the groups by key: the position of a key part on the number line
KeyPart(key, i) == IF i = 7 THEN LabelRank(key[7]) ELSE key[i][2]
KeyLess(a, b) ==
    \E i \in 1..7 :
        /\ KeyPart(a, i) < KeyPart(b, i)
        /\ \A j \in 1..(i - 1) : KeyPart(a, j) = KeyPart(b, j)

RECURSIVE SumCapex(_, _, _)
SumCapex(df, key, i) ==
    IF i > Len(df) THEN 0
    ELSE (IF GroupKey(df[i]) = key THEN df[i].bos_capex[2] ELSE 0) + SumCapex(df, key, i + 1)

\* the dtype of the BOS Capex column
CapexType(df) ==
    IF \E i \in 1..Len(df) : df[i].bos_capex[1] = "float" THEN "float" ELSE "int"

\* groupby(...).sum().reset_index(): one row per key, the costs summed
GroupRow(df, key) ==
    [rating_kW |-> key[1], rotor_diam |-> key[2], turbines |-> key[3],
     hub_height |-> key[4], labor_multiplier |-> key[5], crane_breakdown |-> key[6],
     modifications |-> key[7], bos_capex |-> <<CapexType(df), SumCapex(df, key, 1)>>]

GroupBySum(df) ==
    LET keys == {GroupKey(df[i]) : i \in 1..Len(df)} IN
    [n \in 1..Cardinality(keys) |->
        GroupRow(df, CHOOSE k \in keys :
                        Cardinality({j \in keys : KeyLess(j, k)}) = n - 1)]

GroupBos ==
    /\ lcoe_pc = "groupby"
    /\ bos_sum' = GroupBySum(bos)
    /\ lcoe_pc' = "merge_aep_tcc"
    /\ UNCHANGED <<bos_csv, bos, aep_csv, tcc_csv, aep, tcc, aep_tcc, lcoe, lcoe_csv,
                   lcoe_exception, apiVars>>

\* line 62: the columns aep and tcc are joined on
AepTccKey(row) == <<row.rating_kW[2], row.rotor_diam[2], row.hub_height[2]>>

\* line 62: a row of aep with the TCC column of a matching row of tcc
AepTccRow(left, right) ==
    [rating_kW |-> left.rating_kW, rotor_diam |-> left.rotor_diam,
     hub_height |-> left.hub_height, aep |-> left.aep, tcc |-> right.tcc]

\* line 62: the inner join, in the order of the left rows and, for one left
\* row, in the order of the right rows
RECURSIVE MergeAepTccFrom(_, _, _)
MergeAepTccFrom(left, right, k) ==
    IF k > Len(left) * Len(right) THEN <<>>
    ELSE LET l == left[((k - 1) \div Len(right)) + 1]
             r == right[((k - 1) % Len(right)) + 1]
         IN (IF AepTccKey(l) = AepTccKey(r) THEN <<AepTccRow(l, r)>> ELSE <<>>)
                \o MergeAepTccFrom(left, right, k + 1)

\* lines 62-67
MergeAepTcc ==
    /\ lcoe_pc = "merge_aep_tcc"
    /\ aep_tcc' = MergeAepTccFrom(aep, tcc, 1)
    /\ IF Len(aep_tcc') = 0
       THEN /\ lcoe_exception' = "aep_tcc merge is empty"
            /\ lcoe_pc' = "raised"
       ELSE /\ lcoe_pc' = "merge_bos"
            /\ UNCHANGED lcoe_exception
    /\ UNCHANGED <<bos_csv, bos, aep_csv, tcc_csv, aep, tcc, bos_sum, lcoe, lcoe_csv, apiVars>>

\* line 73: the columns aep_tcc and bos_sum are joined on
FinalJoinKeyWithRotor(row) == <<row.rating_kW[2], row.hub_height[2], row.rotor_diam[2]>>
FinalJoinKey(row) == <<row.rating_kW[2], row.hub_height[2]>>

\* line 73: the joined row; the rotor diameter, a column of both tables that is
\* not a join key, is kept from each side
LcoeRow(left, right) ==
    [rating_kW |-> left.rating_kW, hub_height |-> left.hub_height,
     rotor_diam_x |-> left.rotor_diam, rotor_diam_y |-> right.rotor_diam,
     aep |-> left.aep, tcc |-> left.tcc, turbines |-> right.turbines,
     labor_multiplier |-> right.labor_multiplier,
     crane_breakdown |-> right.crane_breakdown,
     modifications |-> right.modifications, bos_capex |-> right.bos_capex]

RECURSIVE MergeBosFrom(_, _, _)
MergeBosFrom(left, right, k) ==
    IF k > Len(left) * Len(right) THEN <<>>
    ELSE LET l == left[((k - 1) \div Len(right)) + 1]
             r == right[((k - 1) % Len(right)) + 1]
         IN (IF FinalJoinKey(l) = FinalJoinKey(r) THEN <<LcoeRow(l, r)>> ELSE <<>>)
                \o MergeBosFrom(left, right, k + 1)

\* lines 73-76: the emptiness test is on bos_sum
MergeBos ==
    /\ lcoe_pc = "merge_bos"
    /\ lcoe' = MergeBosFrom(aep_tcc, bos_sum, 1)
    /\ IF Len(bos_sum) = 0
       THEN /\ lcoe_exception' = "bos_sum is empty."
            /\ lcoe_pc' = "raised"
       ELSE /\ lcoe_pc' = "compute"
            /\ UNCHANGED lcoe_exception
    /\ UNCHANGED <<bos_csv, bos, aep_csv, tcc_csv, aep, tcc, bos_sum, aep_tcc, lcoe_csv,
                   apiVars>>

\* Exact arithmetic on the columns of lcoe: a number is <<numerator, denominator>>
\* in lowest terms with a positive denominator.
RECURSIVE Gcd(_, _)
Gcd(a, b) == IF b = 0 THEN a ELSE Gcd(b, a % b)
Rat(n, d) == LET g == Gcd(IF n < 0 THEN -n ELSE n, d) IN <<n \div g, d \div g>>
RMul(x, y) ==
    LET g1 == Gcd(IF x[1] < 0 THEN -x[1] ELSE x[1], y[2])
        g2 == Gcd(IF y[1] < 0 THEN -y[1] ELSE y[1], x[2])
    IN <<(x[1] \div g1) * (y[1] \div g2), (x[2] \div g2) * (y[2] \div g1)>>
RAdd(x, y) ==
    LET g == Gcd(x[2], y[2])
    IN Rat(x[1] * (y[2] \div g) + y[1] * (x[2] \div g), (x[2] \div g) * y[2])
RDiv(x, y) == RMul(x, <<y[2], y[1]>>)

\* the number a column value stands for
ToRat(value) == Rat(value[2], Scale)

\* lines 80-81
FCR == Rat(79, 1000)
Opex == 52

\* line 84
TotalOpex(row) == RMul(RMul(Rat(Opex, 1), ToRat(row.rating_kW)), ToRat(row.turbines))
\* line 85
TurbineCapex(row) == RMul(RMul(ToRat(row.tcc), ToRat(row.rating_kW)), ToRat(row.turbines))
\* line 86
CapexTimesFcr(row) == RMul(RAdd(ToRat(row.bos_capex), TurbineCapex(row)), FCR)
\* line 87
AepOneTurbine(row) == ToRat(row.aep)
AepAllTurbines(row) == RMul(ToRat(row.aep), ToRat(row.turbines))
\* line 88
LcoeUsdPerKwh(row) == RDiv(RAdd(CapexTimesFcr(row), TotalOpex(row)), AepAllTurbines(row))

\* lines 80-88: the columns added to a row of lcoe
ComputedRow(row) ==
    [k \in DOMAIN row \cup {"fcr", "opex", "total_opex", "turbine_capex", "lcoe"} |->
        CASE k = "fcr" -> FCR
          [] k = "opex" -> Rat(Opex, 1)
          [] k = "total_opex" -> TotalOpex(row)
          [] k = "turbine_capex" -> TurbineCapex(row)
          [] k = "lcoe" -> LcoeUsdPerKwh(row)
          [] OTHER -> row[k]]

ComputeLcoe ==
    /\ lcoe_pc = "compute"
    /\ lcoe' = [i \in 1..Len(lcoe) |-> ComputedRow(lcoe[i])]
    /\ lcoe_pc' = "write"
    /\ UNCHANGED <<bos_csv, bos, aep_csv, tcc_csv, aep, tcc, bos_sum, aep_tcc, lcoe_csv,
                   lcoe_exception, apiVars>>

\* lines 90-91
WriteLcoe ==
    /\ lcoe_pc = "write"
    /\ lcoe_csv' = lcoe
    /\ lcoe_pc' = "done"
    /\ UNCHANGED <<bos_csv, bos, aep_csv, tcc_csv, aep, tcc, bos_sum, aep_tcc, lcoe,
                   lcoe_exception, apiVars>>

NextLcoe ==
    \/ ReadAepTcc \/ ReadBos \/ PreprocessBos \/ RenameBos \/ GroupBos
    \/ MergeAepTcc \/ MergeBos \/ ComputeLcoe \/ WriteLcoe

SpecLcoe == InitLcoe /\ [][NextLcoe]_vars

\* ================================================================ claims
\* run_landbosse is past the validation of lines 181-229
Validated ==
    \/ pc \in {"daterange", "daterange_loop", "weather", "geometry", "manager",
               "results", "returned"}
    \/ pc = "raised" /\ manager_calls > 0

HasTurbineInputs ==
    {"num_turbines", "turbine_rating_MW"} \subseteq Keys(sam_input_dict)

NegativeCount == Cardinality({i \in 1..Len(sam_input_dict) :
                                 /\ sam_input_dict[i][2][1] \in {"int", "float"}
                                 /\ sam_input_dict[i][2][2] < 0})

C2_NamesLastNegative ==
    (/\ pc \notin {"read_data", "project_loop", "negative_scan"}
     /\ NegativeCount >= 2)
    => \E i \in 1..Len(sam_input_dict) :
          /\ sam_input_dict[i][2][1] # "str" /\ sam_input_dict[i][2][2] < 0
          /\ \A j \in (i + 1)..Len(sam_input_dict) :
                sam_input_dict[j][2][1] = "str" \/ sam_input_dict[j][2][2] >= 0
          /\ "NegativeInputError" \in Keys(error)
          /\ Get(error, "NegativeInputError") =
                "User entered a negative value for " \o sam_input_dict[i][1]
                    \o ". This is an invalid entry"

\* C2 as amended: with two or more negative numeric overrides, the single
\* NegativeInputError message names the first negative key of the override
\* map's iteration order.
C2_NamesFirstNegative ==
    (/\ pc \notin {"read_data", "project_loop", "negative_scan"}
     /\ NegativeCount >= 2)
    => \E i \in 1..Len(sam_input_dict) :
          /\ sam_input_dict[i][2][1] # "str" /\ sam_input_dict[i][2][2] < 0
          /\ \A j \in 1..(i - 1) :
                sam_input_dict[j][2][1] = "str" \/ sam_input_dict[j][2][2] >= 0
          /\ "NegativeInputError" \in Keys(error)
          /\ Cardinality({k \in 1..Len(error) : error[k][1] = "NegativeInputError"}) = 1
          /\ Get(error, "NegativeInputError") =
                "User entered a negative value for " \o sam_input_dict[i][1]
                    \o ". This is an invalid entry"

C2_Witness ==
    /\ pc = "returned"
    /\ NegativeCount = 3
    /\ sam_input_dict[1][1] = "hub_height_meters"
    /\ sam_input_dict[Len(sam_input_dict)][1] = "num_turbines"
    /\ Get(error, "NegativeInputError") =
          "User entered a negative value for hub_height_meters. This is an invalid entry"

\* C3: when the turbine count check fails, master_input_dict['num_turbines']
\* keeps the value it had before the overrides were applied, and when the
\* rating check fails so does master_input_dict['turbine_rating_MW'].
C3_RejectedValueNotWritten ==
    (Validated /\ HasTurbineInputs) =>
        /\ "TurbineNumberError" \in Keys(error)
             => master_input_dict["num_turbines"] = project_master["num_turbines"]
        /\ (\/ "LargeTurbineSizeError" \in Keys(error)
            \/ "SmallTurbineSizeError" \in Keys(error))
             => master_input_dict["turbine_rating_MW"]
                    = project_master["turbine_rating_MW"]

\* C4: Manager.execute_landbosse is never invoked for a scenario whose error
\* map holds an entry.
C4_NoManagerOnError == manager_calls > 0 => error = <<>>

KindRank(kind) ==
    CASE kind = "NegativeInputError" -> 1
      [] kind = "TurbineNumberError" -> 2
      [] kind = "LargeTurbineSizeError" -> 3
      [] kind = "SmallTurbineSizeError" -> 3
      [] kind = "Weather_Data" -> 4
      [] OTHER -> 0

\* C6: a record returned with a non-empty error map holds the errors entry and
\* no cost field, and its errors are one "Error in <kind>: <message>" string
\* per error-map entry, in the order the entries were recorded; num_turbines = 5
\* with otherwise valid inputs and weather gives the TurbineNumberError string
\* alone.
C6_ErrorReport ==
    (pc = "returned" /\ error # <<>>) =>
        /\ DOMAIN results = {"errors"}
        /\ Len(results.errors) = Len(error)
        /\ \A i \in 1..Len(error) :
              results.errors[i] = "Error in " \o error[i][1] \o ": " \o error[i][2]
        /\ \A i, j \in 1..Len(error) :
              i < j => KindRank(error[i][1]) < KindRank(error[j][1])
        /\ (/\ HasTurbineInputs
            /\ Get(sam_input_dict, "num_turbines") = PyInt(5)
            /\ NegativeCount = 0
            /\ Get(sam_input_dict, "turbine_rating_MW")[2] \in (1 * Scale)..(8 * Scale)
            /\ weather_file = WeatherFile(TRUE, 5, 8760))
           => results.errors =
                <<"Error in TurbineNumberError: User selected less than 10 turbines. LandBOSSE currently provides BOS estimates for 10 or greater number of turbines in a utility scale project.">>

C6_Witness ==
    /\ pc = "returned"
    /\ HasTurbineInputs
    /\ Get(sam_input_dict, "num_turbines") = PyInt(5)
    /\ Keys(error) = {"TurbineNumberError"}
    /\ Len(results.errors) = 1

\* The keys of a complete cost record: the errors entry, total_bos_cost and
\* every per-category field that run_landbosse can write.
CostRecordKeys ==
    {"errors", "development_equipment_rental_usd", "development_labor_usd",
     "development_material_usd", "development_mobilization_usd"}
        \cup {ResultFields[i][1] : i \in 1..Len(ResultFields)}

\* C7: a record returned with an empty error map has the same keys in every
\* run, total_bos_cost and every per-category cost field, whatever the Manager
\* wrote into output_dict.
C7_StableKeys ==
    (pc = "returned" /\ error = <<>>) => DOMAIN results = CostRecordKeys

\* The weather source cannot be normalized: it cannot be read, lacks columns, or
\* has fewer than 8760 rows after the header skip.
WeatherSourceFails ==
    \/ ~weather_file.exists
    \/ weather_file.ncols < 5
    \/ weather_file.nrows < 8760

\* C8: a failure of the weather normalization is recorded under Weather_Data
\* and not raised, and the step leaves every other error-map entry as it was.
C8_WeatherFailureRecorded ==
    [][pc = "weather" =>
         /\ pc' = "geometry"
         /\ exception' = exception
         /\ Len(error') >= Len(error)
         /\ \A i \in 1..Len(error) : error'[i] = error[i]
         /\ WeatherSourceFails =>
               /\ Len(error') = Len(error) + 1
               /\ error'[Len(error')][1] = "Weather_Data"]_vars

C8_Witness ==
    /\ pc = "geometry"
    /\ weather_file = WeatherFile(TRUE, 5, 8759)
    /\ Len(error) = 3
    /\ error[1][1] = "NegativeInputError"
    /\ error[3][1] = "Weather_Data"

\* The weather source conforms: five data columns and 8760 rows.
ConformantSource ==
    weather_file.exists /\ weather_file.ncols = 5 /\ weather_file.nrows = 8760

SameProject(row, base) ==
    \A k \in DOMAIN base \ {"cost"} : row[k] = base[k]

\* C10: after preprocess_bos_module_cost every input row is output unchanged
\* with the label Conventional, and every further row is a copy of an input row
\* labelled "Erection 50%" or "Foundation 50%" whose cost is half the input
\* row's cost if its Module is ErectionCost, respectively FoundationCost, and
\* the input row's cost otherwise.
C10_SyntheticRows ==
    lcoe_pc = "rename" =>
        /\ \A i \in 1..Len(bos_csv) :
              /\ SameProject(bos[i], bos_csv[i])
              /\ bos[i].cost = bos_csv[i].cost
              /\ bos[i].modifications = "Conventional"
        /\ \A k \in (Len(bos_csv) + 1)..Len(bos) :
              \E i \in 1..Len(bos_csv) :
                 \E target \in {<<"Erection 50%", "ErectionCost">>,
                                <<"Foundation 50%", "FoundationCost">>} :
                    /\ SameProject(bos[k], bos_csv[i])
                    /\ bos[k].modifications = target[1]
                    /\ bos[k].module = target[2]
                         => 2 * bos[k].cost[2] = bos_csv[i].cost[2]
                    /\ bos[k].module # target[2]
                         => bos[k].cost = bos_csv[i].cost

C10_Witness ==
    /\ lcoe_pc = "rename"
    /\ Len(bos_csv) = 2
    /\ bos_csv[1].module = "ErectionCost"
    /\ bos_csv[2].module = "CollectionCost"
    /\ Len(bos) > 2
    /\ bos[3].modifications = "Erection 50%"
    /\ 2 * bos[3].cost[2] = bos_csv[1].cost[2]
    /\ bos[4].cost = bos_csv[2].cost

\* C11: preprocess_bos_module_cost returns 3N rows for an input of N rows
\* (N = 0 included): the N conventional rows first, then the N rows of the
\* Erection scenario, then the N rows of the Foundation scenario.
C11_RowCount ==
    lcoe_pc = "rename" =>
        LET n == Len(bos_csv) IN
        /\ Len(bos) = 3 * n
        /\ \A i \in 1..Len(bos) :
              bos[i].modifications =
                  IF i <= n THEN "Conventional"
                  ELSE IF i <= 2 * n THEN "Erection 50%" ELSE "Foundation 50%"

C11_Witness ==
    /\ lcoe_pc = "rename"
    /\ Len(bos_csv) = 2
    /\ Len(bos) = 6
    /\ bos[5].modifications = "Foundation 50%"

C11_WitnessEmpty ==
    /\ lcoe_pc = "rename"
    /\ Len(bos_csv) = 0
    /\ Len(bos) = 0

\* The technical parameters of a row of the cost file, as the key columns of
\* the grouped table hold them
CsvTechnicalKey(row) ==
    <<row.rating_MW[2] * 1000, row.rotor_diam[2], row.turbines[2], row.hub_height[2],
      row.labor_multiplier[2], row.crane_breakdown[2]>>
SumTechnicalKey(row) ==
    <<row.rating_kW[2], row.rotor_diam[2], row.turbines[2], row.hub_height[2],
      row.labor_multiplier[2], row.crane_breakdown[2]>>

\* The summed cost, in the cost file, of the rows of one technical key whose
\* module is one of modules
RECURSIVE CsvCost(_, _, _)
CsvCost(key, modules, i) ==
    IF i > Len(bos_csv) THEN 0
    ELSE (IF CsvTechnicalKey(bos_csv[i]) = key /\ bos_csv[i].module \in modules
          THEN bos_csv[i].cost[2] ELSE 0) + CsvCost(key, modules, i + 1)

\* The summed cost that bos holds for one technical key, one label, one module
RECURSIVE BranchedCost(_, _, _, _)
BranchedCost(key, label, module, i) ==
    IF i > Len(bos) THEN 0
    ELSE (IF /\ SumTechnicalKey(bos[i]) = key
             /\ bos[i].modifications = label
             /\ bos[i].module = module
          THEN bos[i].bos_capex[2] ELSE 0) + BranchedCost(key, label, module, i + 1)

GroupsOf(key, label) ==
    {i \in 1..Len(bos_sum) :
        SumTechnicalKey(bos_sum[i]) = key /\ bos_sum[i].modifications = label}

\* C12: after branching and grouping, every group of technical parameters has
\* one Conventional row holding the full summed cost and, for each target
\* module, one "<module> 50%" row whose summed cost is the Conventional sum
\* minus half of the summed cost of that module's rows; the module's cost in
\* the Conventional rows plus its cost in its own 50% rows is 1.5 times its
\* conventional cost.
C12_PartialReduction ==
    lcoe_pc = "merge_aep_tcc" =>
        \A r \in 1..Len(bos_csv) :
            LET key == CsvTechnicalKey(bos_csv[r])
                conventional == GroupsOf(key, "Conventional")
            IN /\ Cardinality(conventional) = 1
               /\ \A c \in conventional :
                     /\ bos_sum[c].bos_capex[2] = CsvCost(key, ModuleNames, 1)
                     /\ \A alias \in {"Erection", "Foundation"} :
                           LET label == alias \o " 50%"
                               module == alias \o "Cost"
                               halved == GroupsOf(key, label)
                           IN /\ Cardinality(halved) = 1
                              /\ \A h \in halved :
                                    2 * bos_sum[h].bos_capex[2] =
                                        2 * bos_sum[c].bos_capex[2]
                                            - CsvCost(key, {module}, 1)
                              /\ 2 * (BranchedCost(key, "Conventional", module, 1)
                                        + BranchedCost(key, label, module, 1))
                                    = 3 * CsvCost(key, {module}, 1)

\* A group mixing a target module with another module: the Erection scenario is
\* reduced by half of the Erection cost only.
C12_Witness ==
    /\ lcoe_pc = "merge_aep_tcc"
    /\ Len(bos_csv) = 2
    /\ CsvTechnicalKey(bos_csv[1]) = CsvTechnicalKey(bos_csv[2])
    /\ bos_csv[1].module = "ErectionCost"
    /\ bos_csv[2].module = "CollectionCost"
    /\ Len(bos_sum) = 3
    /\ bos_sum[2].modifications = "Erection 50%"
    /\ 2 * bos_sum[2].bos_capex[2] = 2 * bos_sum[1].bos_capex[2] - bos_csv[1].cost[2]
    /\ bos_sum[3].bos_capex[2] = bos_sum[1].bos_capex[2]

\* C13: main fails before computing or writing any LCOE row whenever the join
\* of aep with tcc is empty or the final join with the grouped BOS table is
\* empty; it never completes with an empty LCOE table.
C13_FatalOnEmptyJoin ==
    /\ lcoe_pc \in {"compute", "write", "done"} => Len(aep_tcc) > 0 /\ Len(lcoe) > 0
    /\ lcoe_pc = "done" => lcoe_csv # <<>>

\* C14: each of the n rows of the expanded project list is processed end to
\* end: when run_landbosse returns the orchestrator has run once per row, and
\* building the input map of a later row never replaces the map of an
\* earlier row.
C14_EachScenarioProcessed ==
    /\ [](pc = "returned" => manager_calls = Len(project_list))
    /\ [][(pc = "project_loop" /\ project_row > 1 /\ pc' = "project_loop")
            => master_input_dict' = master_input_dict]_vars

\* The workbook has exactly one sheet, or both named sheets
OneSheet == Len(sheets) = 1
BothNamedSheets ==
    /\ \E i \in 1..Len(sheets) : sheets[i][1] = "Project list"
    /\ \E i \in 1..Len(sheets) : sheets[i][1] = "Parametric list"
ReadDataRaised ==
    pc = "raised" /\ exception = "KeyError" /\ base_project_list = <<>> /\ manager_calls = 0

\* C15: read_data raises exactly when the workbook has neither exactly one
\* sheet nor both a "Project list" and a "Parametric list" sheet.  With one
\* sheet, of any name, that sheet is the project list and the parametric list
\* is empty; with both named sheets, also among other sheets, nothing is
\* raised and the two named sheets are the project and the parametric list.
C15_ReadDataSheets ==
    pc # "read_data" =>
        /\ ReadDataRaised <=> ~(OneSheet \/ BothNamedSheets)
        /\ OneSheet => base_project_list = sheets[1][2] /\ parametric_list = <<>>
        /\ (~OneSheet /\ BothNamedSheets) =>
              \E i, j \in 1..Len(sheets) :
                  /\ sheets[i][1] = "Project list"
                  /\ sheets[j][1] = "Parametric list"
                  /\ base_project_list = sheets[i][2]
                  /\ parametric_list = sheets[j][2]

\* Both named sheets behind a third one: nothing raised, the named sheets used
C15_Witness ==
    /\ pc = "project_loop"
    /\ Len(sheets) = 3
    /\ sheets[1][1] = "Sheet1"
    /\ sheets[2][1] = "Parametric list"
    /\ sheets[3][1] = "Project list"
    /\ base_project_list = sheets[3][2]
    /\ parametric_list = sheets[2][2]
\* Two sheets, only one of them named: KeyError
C15_WitnessRaised ==
    /\ ReadDataRaised
    /\ Len(sheets) = 2
    /\ sheets[1][1] = "Project list"
    /\ sheets[2][1] = "Sheet1"
\* One sheet named "Parametric list": it is the project list
C15_WitnessOneSheet ==
    /\ pc = "project_loop"
    /\ Len(sheets) = 1
    /\ sheets[1][1] = "Parametric list"
    /\ base_project_list = sheets[1][2]
    /\ parametric_list = <<>>

\* C16: the override loop leaves, for every key of the override map other than
\* weather_file_path, exactly the override's value in the master map, whether
\* or not the key was there and whatever the value is; weather_file_path is not
\* written; every other key of the master map keeps its value.
C16_OverrideUnconditional ==
    [][pc = "override" =>
        LET written == Keys(sam_input_dict) \ {"weather_file_path"} IN
        /\ DOMAIN master_input_dict' = DOMAIN master_input_dict \cup written
        /\ \A k \in written : master_input_dict'[k] = Get(sam_input_dict, k)
        /\ "weather_file_path" \notin DOMAIN master_input_dict'
        /\ \A k \in DOMAIN master_input_dict \ written :
              master_input_dict'[k] = master_input_dict[k]]_vars

\* After the loop: a new key added, a number replaced by a string, a value the
\* range check rejects written, the weather file path left out.
C16_Witness ==
    /\ pc = "labor"
    /\ Keys(sam_input_dict) = {"num_turbines", "turbine_rating_MW",
                               "development_labor_cost_usd", "gust_velocity_m_per_s",
                               "weather_file_path"}
    /\ "gust_velocity_m_per_s" \notin DOMAIN project_master
    /\ master_input_dict["gust_velocity_m_per_s"] = PyInt(60)
    /\ project_master["development_labor_cost_usd"] = PyInt(1000)
    /\ master_input_dict["development_labor_cost_usd"] = PyStr("unknown")
    /\ master_input_dict["num_turbines"] = PyInt(5)
    /\ "weather_file_path" \notin DOMAIN master_input_dict
    /\ master_input_dict["rotor_diameter_m"] = project_master["rotor_diameter_m"]

\* rating[kW] x turbine count of a row of lcoe
RatedPower(row) == RMul(ToRat(row.rating_kW), ToRat(row.turbines))

\* C17: in every row of the final table, Total Opex = 52.0 x rating[kW] x
\* turbine count, Turbine Capex = TCC x rating[kW] x turbine count and
\* LCOE x (AEP x turbine count) = (BOS Capex + Turbine Capex) x 0.079 + Total
\* Opex, where BOS Capex is the summed cost of the row's group and rating[kW]
\* is 1000 times the rating in MW of the rows of that group.
C17_LcoeFormula ==
    lcoe_pc \in {"write", "done"} =>
        \A i \in 1..Len(lcoe) :
            LET row == lcoe[i] IN
            /\ row.opex = <<52, 1>>
            /\ row.fcr = <<79, 1000>>
            /\ row.total_opex = RMul(row.opex, RatedPower(row))
            /\ row.turbine_capex = RMul(ToRat(row.tcc), RatedPower(row))
            /\ RMul(row.lcoe, RMul(ToRat(row.aep), ToRat(row.turbines)))
                  = RAdd(RMul(RAdd(ToRat(row.bos_capex), row.turbine_capex), row.fcr),
                         row.total_opex)
            /\ \E g \in 1..Len(bos_sum) :
                  /\ bos_sum[g].rating_kW = row.rating_kW
                  /\ bos_sum[g].hub_height[2] = row.hub_height[2]
                  /\ bos_sum[g].rotor_diam = row.rotor_diam_y
                  /\ bos_sum[g].modifications = row.modifications
                  /\ bos_sum[g].bos_capex = row.bos_capex
                  /\ 2 * row.bos_capex[2] =
                        2 * CsvCost(SumTechnicalKey(bos_sum[g]), ModuleNames, 1)
                          - CsvCost(SumTechnicalKey(bos_sum[g]),
                                    {m \in ModuleNames :
                                        \E alias \in {"Erection", "Foundation"} :
                                            /\ m = alias \o "Cost"
                                            /\ row.modifications = alias \o " 50%"}, 1)
            /\ \E r \in 1..Len(bos_csv) : row.rating_kW[2] = 1000 * bos_csv[r].rating_MW[2]

\* One cost row of 1000 USD for 100 turbines of 1.5 MW, AEP 4000 kWh/yr and TCC
\* 1000 USD/kW: the Conventional LCOE is
\* ((1000 + 150000000) x 0.079 + 7800000) / 400000.
C17_Witness ==
    /\ lcoe_pc = "done"
    /\ Len(bos_csv) = 1
    /\ bos_csv[1].cost = PyInt(1000)
    /\ bos_csv[1].module = "ErectionCost"
    /\ Len(lcoe_csv) = 3
    /\ lcoe_csv[1].modifications = "Conventional"
    /\ lcoe_csv[1].total_opex = <<7800000, 1>>
    /\ lcoe_csv[1].turbine_capex = <<150000000, 1>>
    /\ lcoe_csv[1].lcoe = <<19650079, 400000>>
    /\ lcoe_csv[2].modifications = "Erection 50%"
    /\ lcoe_csv[2].lcoe = <<39300079, 800000>>

\* The pairs (row of aep_tcc, row of bos_sum) that agree on rating and hub height
AgreeingPairs ==
    {p \in (1..Len(aep_tcc)) \X (1..Len(bos_sum)) :
        /\ aep_tcc[p[1]].rating_kW[2] = bos_sum[p[2]].rating_kW[2]
        /\ aep_tcc[p[1]].hub_height[2] = bos_sum[p[2]].hub_height[2]}

\* The rows of lcoe made of one row of aep_tcc and one row of bos_sum
RowsOfPair(p) ==
    {k \in 1..Len(lcoe) :
        /\ lcoe[k].rotor_diam_x = aep_tcc[p[1]].rotor_diam
        /\ lcoe[k].aep = aep_tcc[p[1]].aep
        /\ lcoe[k].tcc = aep_tcc[p[1]].tcc
        /\ lcoe[k].rotor_diam_y = bos_sum[p[2]].rotor_diam
        /\ lcoe[k].turbines = bos_sum[p[2]].turbines
        /\ lcoe[k].modifications = bos_sum[p[2]].modifications
        /\ lcoe[k].bos_capex = bos_sum[p[2]].bos_capex}

====
